---- MODULE Spec2Model ----
(***************************************************************************)
(* A model of src/main.rs: a Metropolis simulation of the 2-D Ising model  *)
(* on a torus, run in parallel over a grid of (lattice size, temperature). *)
(*                                                                         *)
(* Representation of f64 values.  Temperatures are held as fixed-point     *)
(* integers in thousandths (1.0 is 1000, 0.05 is 50), so that              *)
(* `(x * 100.0) as i32` is a truncation and not the identity.  A           *)
(* probability is held by its class: "one" (exactly 1.0) or "open"         *)
(* (strictly between 0 and 1); gen_bool is decided by the class alone.     *)
(***************************************************************************)
EXTENDS Integers, Sequences, FiniteSets, Bags, TLC

VARIABLES
    \* a call of a pure function: its arguments and its return value
    args, ret,
    \* one call of iteration(): the compile-time step counts, the arguments,
    \* the locals and the position in the body
    INITIAL_STEPS, LATER_STEPS, MAGN_CALC_STEP,
    lattice_size, temperature, lattice, pc, i, index,
    magn_sum, magn_sqrt_sum, samples, sweeps, result,
    \* main(): the parameter points, the worker threads, the two mutexes,
    \* the progress bar and the output file
    params, main_pc, todo, worker, progress_lock, output_lock, bar, output_file

fvars == <<args, ret>>
cvars == <<INITIAL_STEPS, LATER_STEPS, MAGN_CALC_STEP>>
rvars == <<lattice_size, temperature, lattice, pc, i, index,
           magn_sum, magn_sqrt_sum, samples, sweeps, result>>
mvars == <<params, main_pc, todo, worker, progress_lock, output_lock, bar, output_file>>
vars == <<fvars, cvars, rvars, mvars>>

----------------------------------------------------------------------------
(* Program constants (src/main.rs:12-19), temperatures in thousandths.     *)

MIN_TEMP == 1000
MAX_TEMP == 5000
TEMP_STEP == 50
LATTICE_SIZES == <<6, 15, 40, 70>>

(* Bounds of the model.                                                    *)

\* get_adjacent_indices is applied to every side length 1..MaxSide
MaxSide == 6
\* get_float_range is applied to bounds and steps shifted by 0..MaxShift
\* half-hundredths (0.005) from the program's
MaxShift == 3
\* side lengths of the lattices of a run with the smallest step counts
MaxLatticeSide == 3
\* side lengths of the lattices of a run with varied step counts
MaxRunSide == 2
\* the step counts of a modelled run are drawn from 1..Max*
MaxInitialSteps == 2
MaxLaterSteps == 3
MaxMagnCalcStep == 2
\* the sweep of main() runs over the first NumSizes lattice sizes and the
\* first NumTemps temperatures, on NumThreads worker threads
NumSizes == 1
NumTemps == 2
NumThreads == 2

----------------------------------------------------------------------------
(* Pure functions.                                                         *)

Abs(x) == IF x < 0 THEN -x ELSE x

RECURSIVE SumSeq(_)
SumSeq(s) == IF s = <<>> THEN 0 ELSE Head(s) + SumSeq(Tail(s))

\* a two's-complement i8 result of an arithmetic operation (release build)
WrapI8(x) == ((x + 128) % 256) - 128

\* get_adjacent_indices with the right edge not wrapped
adjacent_right_unwrapped(idx, size) ==
    LET bottom_left == size * size - size
    IN  << IF idx % size = 0 THEN idx + size - 1 ELSE idx - 1,
           IF idx < size THEN idx + bottom_left ELSE idx - size,
           idx + 1,
           IF idx >= bottom_left THEN idx - bottom_left ELSE idx + size >>

\* get_adjacent_indices with the left edge wrapped one cell too far
adjacent_left_off_by_one(idx, size) ==
    LET bottom_left == size * size - size
    IN  << IF idx % size = 0 THEN idx + size ELSE idx - 1,
           IF idx < size THEN idx + bottom_left ELSE idx - size,
           IF idx % size = size - 1 THEN idx + 1 - size ELSE idx + 1,
           IF idx >= bottom_left THEN idx - bottom_left ELSE idx + size >>

\* get_adjacent_indices, src/main.rs:30-63: <<left, top, right, bottom>>
get_adjacent_indices(idx, size) ==
    LET bottom_left == size * size - size
    IN  << IF idx % size = 0 THEN idx + size - 1 ELSE idx - 1,
           IF idx < size THEN idx + bottom_left ELSE idx - size,
           IF idx % size = size - 1 THEN idx + 1 - size ELSE idx + 1,
           IF idx >= bottom_left THEN idx - bottom_left ELSE idx + size >>

\* `(x * 100.0) as i32` of line 99-100: the cast truncates toward zero
Times100AsInt(x) ==
    IF x >= 0 THEN (x * 100) \div 1000 ELSE -(((-x) * 100) \div 1000)

\* `x as f64 * 0.01` of line 101, in thousandths
TimesOneHundredth(x) == x * 10

\* get_float_range over the closed range start..=end
float_range_inclusive(start, end, step) ==
    LET lo == Times100AsInt(start)
        hi == Times100AsInt(end) + 1
        st == Times100AsInt(step)
        n  == IF hi > lo THEN (hi - lo + st - 1) \div st ELSE 0
    IN  [k \in 1..n |-> TimesOneHundredth(lo + (k - 1) * st)]

\* get_float_range, src/main.rs:98-103: a half-open integer range stepped by
\* step_by, each element rescaled.  step_by(0) panics; no caller passes it.
get_float_range(start, end, step) ==
    LET lo == Times100AsInt(start)
        hi == Times100AsInt(end)
        st == Times100AsInt(step)
        n  == IF hi > lo THEN (hi - lo + st - 1) \div st ELSE 0
    IN  [k \in 1..n |-> TimesOneHundredth(lo + (k - 1) * st)]

\* generate_lattice drawing 0 in place of -1
generate_lattice_zero(size) == [1..(size * size) -> {1, 0}]

\* generate_lattice, src/main.rs:24-28: every outcome of the random draws
generate_lattice(size) == [1..(size * size) -> {1, -1}]

\* the class of (x / temp).exp().min(1.0) for x # 0 and a temperature of the
\* grid (1.0 <= temp < 5.0, where exp(-8 / temp) does not underflow)
ExpMin1(x, temp) == IF x * temp > 0 THEN "one" ELSE "open"

\* get_trans_map keyed by spin * sum, without the factor 2
trans_map_halved_keys(temp) ==
    (-4 :> ExpMin1(8, temp)) @@ (-2 :> ExpMin1(4, temp)) @@ (0 :> "one")
        @@ (2 :> ExpMin1(-4, temp)) @@ (4 :> ExpMin1(-8, temp))

\* get_trans_map, src/main.rs:65-76
get_trans_map(temp) ==
    (-8 :> ExpMin1(8, temp)) @@ (-4 :> ExpMin1(4, temp)) @@ (0 :> "one")
        @@ (4 :> ExpMin1(-4, temp)) @@ (8 :> ExpMin1(-8, temp))

\* rng.gen_bool(p): the outcomes a probability of that class can give
gen_bool(p) == IF p = "one" THEN {TRUE} ELSE {TRUE, FALSE}

\* the sum of the four neighbour spins, lines 83-86, as .sum::<i8>() folds it
NeighbourSum(lat, idx, size) ==
    LET adj == get_adjacent_indices(idx, size)
        \* Vec indices are 0-based, sequences 1-based
        s1 == WrapI8(0 + lat[adj[1] + 1])
        s2 == WrapI8(s1 + lat[adj[2] + 1])
        s3 == WrapI8(s2 + lat[adj[3] + 1])
    IN  WrapI8(s3 + lat[adj[4] + 1])

\* energy_change of recalc_lattice, lines 81-86, in i8 arithmetic
energy_change(lat, idx, size) ==
    WrapI8(WrapI8(2 * lat[idx + 1]) * NeighbourSum(lat, idx, size))

\* get_magnetization, src/main.rs:94-96: the numerator |sum of spins| of the
\* fraction whose denominator is lattice.len()
get_magnetization(lat) == Abs(SumSeq(lat))

----------------------------------------------------------------------------
(* The variables a specification does not use stay at these values.        *)

IdleFn == /\ args = [fn |-> "none"]
          /\ ret = [done |-> FALSE, val |-> <<>>]

IdleConsts == /\ INITIAL_STEPS = 0
              /\ LATER_STEPS = 0
              /\ MAGN_CALC_STEP = 0

IdleRun == /\ lattice_size = 0
           /\ temperature = 0
           /\ lattice = <<>>
           /\ pc = "idle"
           /\ i = 0
           /\ index = 0
           /\ magn_sum = 0
           /\ magn_sqrt_sum = 0
           /\ samples = 0
           /\ sweeps = 0
           /\ result = <<>>

IdleMain == /\ params = <<>>
            /\ main_pc = "idle"
            /\ todo = {}
            /\ worker = <<>>
            /\ progress_lock = 0
            /\ output_lock = 0
            /\ bar = [total |-> 0, pos |-> 0]
            /\ output_file = [created |-> FALSE, header |-> 0, lines |-> EmptyBag]

----------------------------------------------------------------------------
(* SpecAdj: get_adjacent_indices applied to every cell of every lattice    *)
(* of side 1..MaxSide.                                                     *)

InitAdj ==
    /\ \E size \in 1..MaxSide : \E idx \in 0..(size * size - 1) :
           args = [fn |-> "get_adjacent_indices", index |-> idx, size |-> size]
    /\ ret = [done |-> FALSE, val |-> <<>>]
    /\ IdleConsts /\ IdleRun /\ IdleMain

CallAdjacent ==
    /\ args.fn = "get_adjacent_indices"
    /\ ~ret.done
    /\ ret' = [done |-> TRUE, val |-> get_adjacent_indices(args.index, args.size)]
    /\ UNCHANGED <<args, cvars, rvars, mvars>>

NextAdj == CallAdjacent

SpecAdj == InitAdj /\ [][NextAdj]_vars

(* SpecRange: get_float_range applied to the program's bounds and step and *)
(* to bounds and steps near them, some of them not whole hundredths.       *)

Shifts == {5 * k : k \in 0..MaxShift}

InitRange ==
    /\ \E a \in Shifts, b \in Shifts, c \in Shifts :
           args = [fn |-> "get_float_range", start |-> MIN_TEMP + a,
                   end |-> MAX_TEMP - b, step |-> TEMP_STEP + c]
    /\ ret = [done |-> FALSE, val |-> <<>>]
    /\ IdleConsts /\ IdleRun /\ IdleMain

CallFloatRange ==
    /\ args.fn = "get_float_range"
    /\ ~ret.done
    /\ ret' = [done |-> TRUE, val |-> get_float_range(args.start, args.end, args.step)]
    /\ UNCHANGED <<args, cvars, rvars, mvars>>

NextRange == CallFloatRange

SpecRange == InitRange /\ [][NextRange]_vars

----------------------------------------------------------------------------
(* One call of iteration(lattice_size, temperature, trans_map),            *)
(* src/main.rs:118-142, with recalc_lattice (lines 78-92) stepped one cell *)
(* at a time.  sweeps and samples count the completed calls of             *)
(* recalc_lattice and the additions to the accumulator.                    *)

\* the table passed to iteration is the one get_params built for the
\* temperature (lines 111-112)
trans_map == get_trans_map(temperature)

\* MAGN_STEPS, src/main.rs:18
MAGN_STEPS == LATER_STEPS \div MAGN_CALC_STEP

\* the equilibration loop over 0..=INITIAL_STEPS
EquilContinuesInclusive(k) == k <= INITIAL_STEPS

\* line 121: the range 0..INITIAL_STEPS has a next element
EquilContinues(k) == k < INITIAL_STEPS

\* line 125: the range 0..LATER_STEPS has a next element
SampleContinues(k) == k < LATER_STEPS

\* sampling at the last sweep of every block of MAGN_CALC_STEP
ShouldSampleAtBlockEnd(k) == (k + 1) % MAGN_CALC_STEP = 0

\* line 127
ShouldSample(k) == k % MAGN_CALC_STEP = 0

\* line 79: the range 0..size * size has a next element
CellsLeft(idx, size) == idx < size * size

\* lines 88-90: the lattice after the cell's Bernoulli trial came out as flip
FlipIf(lat, idx, flip) == IF flip THEN [lat EXCEPT ![idx + 1] = -lat[idx + 1]] ELSE lat

InSweep == pc \in {"equil_sweep", "sample_sweep"}

\* line 119
GenerateLattice ==
    /\ pc = "init"
    /\ lattice' \in generate_lattice(lattice_size)
    /\ pc' = "equil_loop"
    /\ i' = 0
    /\ UNCHANGED <<index, magn_sum, magn_sqrt_sum, samples, sweeps, result,
                   lattice_size, temperature, fvars, cvars, mvars>>

\* lines 121-123: the head of the equilibration loop
EquilLoop ==
    /\ pc = "equil_loop"
    /\ IF EquilContinues(i)
       THEN /\ pc' = "equil_sweep"
            /\ index' = 0
            /\ UNCHANGED <<i, magn_sum, magn_sqrt_sum>>
       ELSE \* line 125: the fold starts from (0.0, 0.0)
            /\ pc' = "sample_loop"
            /\ i' = 0
            /\ magn_sum' = 0
            /\ magn_sqrt_sum' = 0
            /\ UNCHANGED index
    /\ UNCHANGED <<lattice, samples, sweeps, result,
                   lattice_size, temperature, fvars, cvars, mvars>>

\* lines 80-90: one cell of recalc_lattice; an index into trans_map that is
\* not a key panics
RecalcCell ==
    /\ InSweep
    /\ CellsLeft(index, lattice_size)
    /\ LET e == energy_change(lattice, index, lattice_size)
       IN  IF e \in DOMAIN trans_map
           THEN /\ \E flip \in gen_bool(trans_map[e]) :
                       lattice' = FlipIf(lattice, index, flip)
                /\ index' = index + 1
                /\ pc' = pc
           ELSE /\ pc' = "panic"
                /\ UNCHANGED <<lattice, index>>
    /\ UNCHANGED <<i, magn_sum, magn_sqrt_sum, samples, sweeps, result,
                   lattice_size, temperature, fvars, cvars, mvars>>

\* line 122: recalc_lattice returns to the equilibration loop
EquilSweepDone ==
    /\ pc = "equil_sweep"
    /\ ~CellsLeft(index, lattice_size)
    /\ sweeps' = sweeps + 1
    /\ i' = i + 1
    /\ pc' = "equil_loop"
    /\ UNCHANGED <<lattice, index, magn_sum, magn_sqrt_sum, samples, result,
                   lattice_size, temperature, fvars, cvars, mvars>>

\* line 125: the head of the fold
SampleLoop ==
    /\ pc = "sample_loop"
    /\ IF SampleContinues(i)
       THEN /\ pc' = "sample_sweep"
            /\ index' = 0
       ELSE /\ pc' = "reduce"
            /\ UNCHANGED index
    /\ UNCHANGED <<lattice, i, magn_sum, magn_sqrt_sum, samples, sweeps, result,
                   lattice_size, temperature, fvars, cvars, mvars>>

\* lines 126-135: recalc_lattice returns to the closure of the fold
SampleSweepDone ==
    /\ pc = "sample_sweep"
    /\ ~CellsLeft(index, lattice_size)
    /\ sweeps' = sweeps + 1
    /\ IF ShouldSample(i)
       THEN LET current_magnetization == get_magnetization(lattice)
            IN  /\ magn_sum' = magn_sum + current_magnetization
                /\ magn_sqrt_sum' = magn_sqrt_sum
                                      + current_magnetization * current_magnetization
                /\ samples' = samples + 1
       ELSE UNCHANGED <<magn_sum, magn_sqrt_sum, samples>>
    /\ i' = i + 1
    /\ pc' = "sample_loop"
    /\ UNCHANGED <<lattice, index, result,
                   lattice_size, temperature, fvars, cvars, mvars>>

\* lines 138-141: the two estimates as fractions.  With N = lattice_size^2,
\* magnetization = magn_sum / (N * MAGN_STEPS) and susceptibility =
\* (magn_sqrt_sum * MAGN_STEPS - magn_sum^2) * 1000
\*     / (N * temperature * MAGN_STEPS^2)
\* (a zero denominator is the f64 division by zero: inf or NaN, no panic)
Reduce ==
    /\ pc = "reduce"
    /\ LET N == lattice_size * lattice_size
       IN  result' = << [num |-> magn_sum, den |-> N * MAGN_STEPS],
                        [num |-> (magn_sqrt_sum * MAGN_STEPS - magn_sum * magn_sum) * 1000,
                         den |-> N * temperature * MAGN_STEPS * MAGN_STEPS] >>
    /\ pc' = "done"
    /\ UNCHANGED <<lattice, i, index, magn_sum, magn_sqrt_sum, samples, sweeps,
                   lattice_size, temperature, fvars, cvars, mvars>>

NextRun ==
    \/ GenerateLattice
    \/ EquilLoop
    \/ RecalcCell
    \/ EquilSweepDone
    \/ SampleLoop
    \/ SampleSweepDone
    \/ Reduce

\* the state at the entry of iteration
EnterIteration(size, temp) ==
    /\ lattice_size = size
    /\ temperature = temp
    /\ lattice = <<>>
    /\ pc = "init"
    /\ i = 0
    /\ index = 0
    /\ magn_sum = 0
    /\ magn_sqrt_sum = 0
    /\ samples = 0
    /\ sweeps = 0
    /\ result = <<>>

(* SpecRun: iteration for every choice of the three step counts up to the  *)
(* bounds, on lattices of side 1..MaxRunSide, at the first temperature of  *)
(* the grid.                                                               *)
InitRun ==
    /\ INITIAL_STEPS \in 1..MaxInitialSteps
    /\ LATER_STEPS \in 1..MaxLaterSteps
    /\ MAGN_CALC_STEP \in 1..MaxMagnCalcStep
    /\ \E size \in 1..MaxRunSide : EnterIteration(size, MIN_TEMP)
    /\ IdleFn /\ IdleMain

SpecRun == InitRun /\ [][NextRun]_vars

(* SpecLattice: iteration with the smallest step counts, on every lattice  *)
(* of side 1..MaxLatticeSide, at the first temperature of the grid.        *)
InitLattice ==
    /\ INITIAL_STEPS = 1
    /\ LATER_STEPS = 1
    /\ MAGN_CALC_STEP = 1
    /\ \E size \in 1..MaxLatticeSide : EnterIteration(size, MIN_TEMP)
    /\ IdleFn /\ IdleMain

SpecLattice == InitLattice /\ [][NextRun]_vars

----------------------------------------------------------------------------
(* main(), src/main.rs:144-181.  The parallel iterator of lines 156-165 is *)
(* lazy: for_each (line 170) drives it, and each worker thread of the pool *)
(* takes a parameter point, runs the map closure (lines 160-164) and then  *)
(* the for_each closure (lines 171-177) on it.  iteration works on locals  *)
(* only, so a worker's call of it is two steps here, one for each of its   *)
(* loops.  The rows of the file are held as a bag of the <<l, t>> they     *)
(* start with.                                                             *)

Threads == 1..NumThreads

\* the grids of the modelled sweep: a prefix of LATTICE_SIZES, and the
\* temperature range cut after NumTemps steps
SweepSizes == SubSeq(LATTICE_SIZES, 1, NumSizes)
SweepMaxTemp == MIN_TEMP + NumTemps * TEMP_STEP

\* get_params pairing the k-th size with the k-th temperature (zip)
get_params_zip ==
    LET temperatures == get_float_range(MIN_TEMP, SweepMaxTemp, TEMP_STEP)
        n == IF Len(SweepSizes) < Len(temperatures)
             THEN Len(SweepSizes) ELSE Len(temperatures)
    IN  [k \in 1..n |-> <<SweepSizes[k], temperatures[k], get_trans_map(temperatures[k])>>]

\* get_params, src/main.rs:105-116: flat_map over the sizes, map over the
\* temperatures
get_params ==
    LET temperatures == get_float_range(MIN_TEMP, SweepMaxTemp, TEMP_STEP)
        nt == Len(temperatures)
    IN  [k \in 1..(Len(SweepSizes) * nt) |->
            LET lattice_size_ == SweepSizes[((k - 1) \div nt) + 1]
                temp == temperatures[((k - 1) % nt) + 1]
            IN  <<lattice_size_, temp, get_trans_map(temp)>>]

\* "{:.2}" of line 175: a temperature in hundredths, rounded to nearest
Format2(t) == (t + 5) \div 10

\* the row of line 175 for a result (l, t, m, s)
FormatRow(l, t) == <<l, Format2(t)>>

\* a lock that never waits
CanLockAlways(m) == TRUE

\* Mutex::lock (lines 163, 173) returns when no thread holds the mutex
CanLock(m) == m = 0

\* a guard kept alive past its statement
GuardKept(m) == m

\* the MutexGuard of lines 163 and 173 is a temporary, dropped at the end
\* of its statement: the mutex after the statement
AfterStatement(m) == 0

\* line 148
MainGetParams ==
    /\ main_pc = "start"
    /\ params' = get_params
    /\ main_pc' = "bar"
    /\ UNCHANGED <<todo, worker, progress_lock, output_lock, bar, output_file,
                   fvars, cvars, rvars>>

\* lines 149-153: no other thread exists yet
MainCreateBar ==
    /\ main_pc = "bar"
    /\ CanLock(progress_lock)
    /\ bar' = [total |-> Len(params), pos |-> 0]
    /\ progress_lock' = AfterStatement(progress_lock)
    /\ main_pc' = "create"
    /\ UNCHANGED <<params, todo, worker, output_lock, output_file,
                   fvars, cvars, rvars>>

\* line 168
MainCreateFile ==
    /\ main_pc = "create"
    /\ output_file' = [created |-> TRUE, header |-> 0, lines |-> EmptyBag]
    /\ main_pc' = "header"
    /\ UNCHANGED <<params, todo, worker, progress_lock, output_lock, bar,
                   fvars, cvars, rvars>>

\* line 169
MainWriteHeader ==
    /\ main_pc = "header"
    /\ CanLock(output_lock)
    /\ output_file' = [output_file EXCEPT !.header = @ + 1]
    /\ output_lock' = AfterStatement(output_lock)
    /\ main_pc' = "for_each"
    /\ todo' = DOMAIN params
    /\ UNCHANGED <<params, worker, progress_lock, bar, fvars, cvars, rvars>>

\* a worker takes the next parameter point of its share (lines 157-159);
\* which one is up to the pool's work stealing
WorkerTake(t) ==
    /\ main_pc = "for_each"
    /\ worker[t].pc = "idle"
    /\ \E k \in todo :
           /\ todo' = todo \ {k}
           /\ worker' = [worker EXCEPT ![t] = [pc |-> "equilibration", item |-> k,
                                                 computed |-> FALSE]]
    /\ UNCHANGED <<params, main_pc, progress_lock, output_lock, bar, output_file,
                   fvars, cvars, rvars>>

\* lines 160-161, iteration up to the end of its equilibration loop
\* (lines 119-123)
WorkerEquilibrate(t) ==
    /\ worker[t].pc = "equilibration"
    /\ worker' = [worker EXCEPT ![t].pc = "sampling"]
    /\ UNCHANGED <<params, main_pc, todo, progress_lock, output_lock, bar,
                   output_file, fvars, cvars, rvars>>

\* lines 160-161, iteration from its fold to its return (lines 125-141)
WorkerSample(t) ==
    /\ worker[t].pc = "sampling"
    /\ worker' = [worker EXCEPT ![t].pc = "lock_progress", ![t].computed = TRUE]
    /\ UNCHANGED <<params, main_pc, todo, progress_lock, output_lock, bar,
                   output_file, fvars, cvars, rvars>>

\* line 163: p.lock()
WorkerLockProgress(t) ==
    /\ worker[t].pc = "lock_progress"
    /\ CanLock(progress_lock)
    /\ progress_lock' = t
    /\ worker' = [worker EXCEPT ![t].pc = "inc_and_draw"]
    /\ UNCHANGED <<params, main_pc, todo, output_lock, bar, output_file,
                   fvars, cvars, rvars>>

\* lines 163-164: inc_and_draw(&bar, 1), the guard dropped, the tuple returned
WorkerIncAndDraw(t) ==
    /\ worker[t].pc = "inc_and_draw"
    /\ bar' = [bar EXCEPT !.pos = @ + 1]
    /\ progress_lock' = AfterStatement(progress_lock)
    /\ worker' = [worker EXCEPT ![t].pc = "lock_output"]
    /\ UNCHANGED <<params, main_pc, todo, output_lock, output_file,
                   fvars, cvars, rvars>>

\* line 173: output_file.lock()
WorkerLockOutput(t) ==
    /\ worker[t].pc = "lock_output"
    /\ CanLock(output_lock)
    /\ output_lock' = t
    /\ worker' = [worker EXCEPT ![t].pc = "writeln"]
    /\ UNCHANGED <<params, main_pc, todo, progress_lock, bar, output_file,
                   fvars, cvars, rvars>>

\* lines 172-177: the row written, the guard dropped
WorkerWriteln(t) ==
    /\ worker[t].pc = "writeln"
    /\ LET p == params[worker[t].item]
       IN  output_file' = [output_file EXCEPT
                              !.lines = @ (+) SetToBag({FormatRow(p[1], p[2])})]
    /\ output_lock' = AfterStatement(output_lock)
    /\ worker' = [worker EXCEPT ![t] = [pc |-> "idle", item |-> 0,
                                         computed |-> FALSE]]
    /\ UNCHANGED <<params, main_pc, todo, progress_lock, bar, fvars, cvars, rvars>>

Worker(t) ==
    \/ WorkerTake(t)
    \/ WorkerEquilibrate(t)
    \/ WorkerSample(t)
    \/ WorkerLockProgress(t)
    \/ WorkerIncAndDraw(t)
    \/ WorkerLockOutput(t)
    \/ WorkerWriteln(t)

\* lines 170-180: for_each returns when every point went through both
\* closures; then "Done" is printed
MainDone ==
    /\ main_pc = "for_each"
    /\ todo = {}
    /\ \A t \in Threads : worker[t].pc = "idle"
    /\ main_pc' = "done"
    /\ UNCHANGED <<params, todo, worker, progress_lock, output_lock, bar,
                   output_file, fvars, cvars, rvars>>

MainStep ==
    \/ MainGetParams
    \/ MainCreateBar
    \/ MainCreateFile
    \/ MainWriteHeader
    \/ MainDone

NextMain == MainStep \/ \E t \in Threads : Worker(t)

InitMain ==
    /\ params = <<>>
    /\ main_pc = "start"
    /\ todo = {}
    /\ worker = [t \in Threads |-> [pc |-> "idle", item |-> 0, computed |-> FALSE]]
    /\ progress_lock = 0
    /\ output_lock = 0
    /\ bar = [total |-> 0, pos |-> 0]
    /\ output_file = [created |-> FALSE, header |-> 0, lines |-> EmptyBag]
    /\ IdleFn /\ IdleConsts /\ IdleRun

SpecMain == InitMain /\ [][NextMain]_vars

\* the pool schedules every worker thread that can take a step, and main
FairMain ==
    /\ WF_vars(MainStep)
    /\ \A t \in Threads : WF_vars(Worker(t))

SpecMainFair == InitMain /\ [][NextMain]_vars /\ FairMain

----------------------------------------------------------------------------
(* Properties.                                                             *)

\* the rows the declared grids call for, written out independently of
\* get_params and get_float_range: temperatures 1.00, 1.05, ... in hundredths
ExpectedRows ==
    {<<LATTICE_SIZES[a], 100 + 5 * (b - 1)>> : a \in 1..NumSizes, b \in 1..NumTemps}

\* C1: under every interleaving of the parallel runs the sweep writes exactly
\* one record for every (lattice size, temperature) pair of the grids: no
\* record is written twice or for a pair outside the grids at any time, and
\* when main is done no pair is missing and the number of records is
\* |sizes| x |temperatures|.
C1_OneRecordPerPair ==
    /\ \A r \in BagToSet(output_file.lines) :
           r \in ExpectedRows /\ CopiesIn(r, output_file.lines) = 1
    /\ main_pc = "done" =>
           /\ BagToSet(output_file.lines) = ExpectedRows
           /\ BagCardinality(output_file.lines) = NumSizes * NumTemps
           /\ Len(params) = NumSizes * NumTemps

C1_Witness ==
    /\ main_pc = "done"
    /\ BagCardinality(output_file.lines) = NumSizes * NumTemps
    /\ BagCardinality(output_file.lines) > 1

ProgramArgs ==
    /\ args.fn = "get_float_range"
    /\ args.start = MIN_TEMP /\ args.end = MAX_TEMP /\ args.step = TEMP_STEP

\* {1.00, 1.05, ..., 4.95} in thousandths
ReferenceGrid == {t \in 1000..4950 : (t - 1000) % 50 = 0}

RangeOf(f) == {f[k] : k \in DOMAIN f}

\* C2 as amended: get_float_range(1.0, 5.0, 0.05) is exactly the grid
\* {1.00, 1.05, ..., 4.95}, each value once and in increasing order; it has
\* 80 values and does not contain 5.00.
C2_GridHas80Values ==
    (ret.done /\ ProgramArgs) =>
        /\ RangeOf(ret.val) = ReferenceGrid
        /\ Len(ret.val) = 80
        /\ \A k \in 1..(Len(ret.val) - 1) : ret.val[k] < ret.val[k + 1]
        /\ 5000 \notin RangeOf(ret.val)

\* C2 as stated: the grid is {1.00, 1.05, ..., 4.95}, has 39 values and does
\* not contain 5.00.
C2_GridHas39Values ==
    (ret.done /\ ProgramArgs) =>
        /\ RangeOf(ret.val) = ReferenceGrid
        /\ Len(ret.val) = 39
        /\ 5000 \notin RangeOf(ret.val)

C2_Witness ==
    /\ ret.done /\ ProgramArgs
    /\ Len(ret.val) = 80
    /\ ret.val[1] = 1000 /\ ret.val[80] = 4950

AdjCalled == args.fn = "get_adjacent_indices" /\ ret.done

\* C3 as amended: for every side n >= 1 and every cell i, each of the four
\* indices of get_adjacent_indices(i, n) lies in [0, n*n); the four are
\* pairwise distinct exactly when n >= 3 (for n = 2 left = right and
\* top = bottom, for n = 1 all four are i).
C3_InRangeDistinctFrom3 ==
    AdjCalled =>
        /\ Len(ret.val) = 4
        /\ \A k \in 1..4 : ret.val[k] \in 0..(args.size * args.size - 1)
        /\ (Cardinality(RangeOf(ret.val)) = 4) <=> (args.size >= 3)

\* C3 as stated: for every side n >= 1 the four indices are pairwise
\* distinct and in [0, n*n).
C3_InRangeDistinct ==
    AdjCalled =>
        /\ \A k \in 1..4 : ret.val[k] \in 0..(args.size * args.size - 1)
        /\ Cardinality(RangeOf(ret.val)) = 4

C3_Witness ==
    /\ AdjCalled
    /\ args.size >= 3
    /\ args.index = args.size * args.size - 1
    /\ Cardinality(RangeOf(ret.val)) = 4

Row(x, size) == x \div size
Col(x, size) == x % size

\* C4: the neighbour mapping is a torus: left and right stay in the row of
\* i, top and bottom stay in the column of i, and opposite directions are
\* mutual inverses.
C4_Torus ==
    AdjCalled =>
        LET n == args.size
            left == ret.val[1]
            top == ret.val[2]
            right == ret.val[3]
            bottom == ret.val[4]
        IN  /\ Row(left, n) = Row(args.index, n)
            /\ Row(right, n) = Row(args.index, n)
            /\ Col(top, n) = Col(args.index, n)
            /\ Col(bottom, n) = Col(args.index, n)
            /\ get_adjacent_indices(right, n)[1] = args.index
            /\ get_adjacent_indices(left, n)[3] = args.index
            /\ get_adjacent_indices(bottom, n)[2] = args.index
            /\ get_adjacent_indices(top, n)[4] = args.index

\* a corner cell, where both the row and the column wrap
C4_Witness ==
    /\ AdjCalled
    /\ args.size >= 3
    /\ args.index = 0
    /\ ret.val[1] = args.size - 1
    /\ ret.val[2] = args.size * args.size - args.size

PhaseOf(p) ==
    CASE p = "init" -> 0
      [] p \in {"equil_loop", "equil_sweep"} -> 1
      [] p \in {"sample_loop", "sample_sweep", "reduce"} -> 2
      [] p = "done" -> 3
      [] OTHER -> 4

C5_PhaseInv ==
    /\ PhaseOf(pc) \in 0..3
    /\ PhaseOf(pc) = 0 => (sweeps = 0 /\ samples = 0 /\ lattice = <<>>)
    /\ PhaseOf(pc) = 1 =>
           /\ sweeps <= INITIAL_STEPS
           /\ samples = 0 /\ magn_sum = 0 /\ magn_sqrt_sum = 0
    /\ PhaseOf(pc) = 2 =>
           (INITIAL_STEPS <= sweeps /\ sweeps <= INITIAL_STEPS + LATER_STEPS)
    /\ pc \in {"reduce", "done"} => sweeps = INITIAL_STEPS + LATER_STEPS
    /\ (pc = "done") <=> (result # <<>>)

C5_PhaseStep ==
    /\ PhaseOf(pc') \in {PhaseOf(pc), PhaseOf(pc) + 1}
    /\ (PhaseOf(pc) = 1 /\ PhaseOf(pc') = 2) => sweeps = INITIAL_STEPS
    /\ sweeps' \in {sweeps, sweeps + 1}
    /\ Len(lattice') # Len(lattice) => pc = "init"

\* C5: a run goes through Init, Equilibration, Sampling and the terminal
\* state in that order and never back; the lattice is generated once; the
\* equilibration is exactly INITIAL_STEPS sweeps with nothing added to the
\* accumulator, the sampling exactly LATER_STEPS further sweeps, and the
\* result is computed only after INITIAL_STEPS + LATER_STEPS sweeps.
C5_PhasesInOrder == []C5_PhaseInv /\ [][C5_PhaseStep]_vars

C5_Witness ==
    /\ pc = "done"
    /\ sweeps = INITIAL_STEPS + LATER_STEPS
    /\ LATER_STEPS > 1
    /\ samples >= 1
    /\ lattice_size = 2

\* C6: after generate_lattice and at every point of every sweep the lattice
\* has exactly size * size elements, each +1 or -1.
C6_LatticeShape ==
    pc # "init" =>
        /\ DOMAIN lattice = 1..(lattice_size * lattice_size)
        /\ \A k \in DOMAIN lattice : lattice[k] \in {1, -1}

\* the middle of a sampling sweep of a 3 x 3 lattice holding both spins
C6_Witness ==
    /\ pc = "sample_sweep"
    /\ lattice_size = 3
    /\ index = 4
    /\ sweeps >= 1
    /\ {lattice[k] : k \in DOMAIN lattice} = {1, -1}

\* 2 * spin * (sum of the four neighbour spins) in unbounded integers
ExactEnergyChange(lat, idx, size) ==
    LET adj == get_adjacent_indices(idx, size)
    IN  2 * lat[idx + 1]
          * (lat[adj[1] + 1] + lat[adj[2] + 1] + lat[adj[3] + 1] + lat[adj[4] + 1])

\* C8: at every cell a sweep visits, 2 * spin * (sum of the four neighbour
\* spins) is one of -8, -4, 0, 4, 8, the i8 computation gives that value
\* (no overflow), and it is a key of the transition table: the lookup never
\* panics.
C8_EnergyChangeIsKey ==
    /\ pc # "panic"
    /\ (InSweep /\ CellsLeft(index, lattice_size)) =>
           LET exact == ExactEnergyChange(lattice, index, lattice_size)
           IN  /\ exact \in {-8, -4, 0, 4, 8}
               /\ energy_change(lattice, index, lattice_size) = exact
               /\ exact \in DOMAIN trans_map

\* a cell of a 3 x 3 lattice with three of its four neighbours aligned with
\* it, in a sweep after the first
C8_Witness ==
    /\ pc = "sample_sweep"
    /\ CellsLeft(index, lattice_size)
    /\ lattice_size = 3
    /\ energy_change(lattice, index, lattice_size) = 4

AtReduction == pc \in {"reduce", "done"}

\* C9 as amended: at the end of the sampling phase the number of samples
\* added to the accumulator is the number of i in 0..LATER_STEPS with
\* i % MAGN_CALC_STEP = 0, that is LATER_STEPS / MAGN_CALC_STEP rounded up.
\* The divisor MAGN_STEPS equals it when MAGN_CALC_STEP divides LATER_STEPS
\* (as 100 divides 200_000) and is one less otherwise.
C9_DivisorIsSamplesWhenDivisible ==
    AtReduction =>
        /\ samples = (LATER_STEPS + MAGN_CALC_STEP - 1) \div MAGN_CALC_STEP
        /\ LATER_STEPS % MAGN_CALC_STEP = 0 => MAGN_STEPS = samples
        /\ LATER_STEPS % MAGN_CALC_STEP # 0 => MAGN_STEPS = samples - 1

\* C9 as stated: the divisor equals the number of samples for every choice
\* of LATER_STEPS >= 1 and MAGN_CALC_STEP >= 1.
C9_DivisorIsSamples == AtReduction => MAGN_STEPS = samples

C9_Witness ==
    /\ pc = "done"
    /\ MAGN_CALC_STEP = 2
    /\ LATER_STEPS = 2
    /\ samples = 1
    /\ MAGN_STEPS = 1

HoldsSink(p) == {t \in Threads : worker[t].pc = p}

\* the runs taken by a worker whose progress increment is still to come
BeforeInc == HoldsSink("equilibration") \cup HoldsSink("sampling")
                 \cup HoldsSink("lock_progress") \cup HoldsSink("inc_and_draw")

C7_SinkInv ==
    /\ Cardinality(HoldsSink("inc_and_draw")) <= 1
    /\ Cardinality(HoldsSink("writeln")) <= 1
    /\ main_pc \in {"for_each", "done"} =>
           bar.pos = Len(params) - Cardinality(todo) - Cardinality(BeforeInc)
    /\ main_pc = "done" => (bar.pos = Len(params) /\ bar.pos = bar.total)

C7_SinkStep ==
    /\ bar.pos' >= bar.pos
    /\ bar.pos' # bar.pos =>
           /\ bar.pos' = bar.pos + 1
           /\ \E t \in Threads :
                  /\ worker[t].pc = "inc_and_draw"
                  /\ worker[t].computed
                  /\ worker'[t].pc = "lock_output"
    /\ output_file.lines' # output_file.lines =>
           \E t \in Threads : worker[t].pc = "writeln" /\ worker'[t].pc = "idle"

\* C7: the two sinks are serialized: at most one run is inside the progress
\* increment and at most one inside the file append at any time; the
\* progress counter never decreases, goes up by one exactly once per run
\* and only after that run's iteration has returned, and equals the number
\* of parameter points when the sweep ends.
C7_SinksSerialized == []C7_SinkInv /\ [][C7_SinkStep]_vars

\* one run holds the progress lock while another waits for it
C7_Witness ==
    \E t, u \in Threads :
        /\ t # u
        /\ worker[t].pc = "inc_and_draw"
        /\ worker[u].pc = "lock_progress"
        /\ progress_lock = t

Finished ==
    /\ main_pc = "done"
    /\ bar.pos = Len(params)
    /\ BagCardinality(output_file.lines) = Len(params)
    /\ output_file.header = 1
    /\ Len(params) > 0

NoRunHoldsBothLocks ==
    \A t \in Threads : ~(progress_lock = t /\ output_lock = t)

====
